---- MODULE Spec2Model ----
(***************************************************************************)
(* The menu registry of vue-menu.  The repository holds two revisions of   *)
(* the registry: the scoped one (src/config/menuRegistry.ts, builders      *)
(* keyed by menu name) and the unscoped one (src/index.ts, one flat list   *)
(* of builders applied to every menu name).  A program runs one of them:   *)
(* `variant` is fixed by Init.  Every registry method runs to completion,  *)
(* so each method is one action.  SpecDebug adds calls of the debug         *)
(* utilities (validateMenus, searchMenusByTitle).  The useMenu             *)
(* composable's permission filter is a pure function: SpecFilter draws its *)
(* inputs and applies it.  SpecCount runs the unscoped registry and keeps  *)
(* count of the register and unregister calls per builder.                 *)
(***************************************************************************)
EXTENDS Integers, Sequences, FiniteSets, TLC

VARIABLES variant, builders, buildersU, menuCache, menuUpdateTrigger,
          nextRef, last, returned, requested,
          items, userPermissions, filtered,
          counted

\* The arguments of filterByPermission and what it returned.
filterVars == <<items, userPermissions, filtered>>

vars == <<variant, builders, buildersU, menuCache, menuUpdateTrigger,
          nextRef, last, returned, requested, filterVars, counted>>

(* ------------------------------ bounds -------------------------------- *)

\* Most builders registered at one time (over all names in the scoped variant).
MaxBuilders == 3

\* The change counter is capped: a mutation that would pass it is not taken.
MaxTrigger == 3

\* Objects the model allocates (object identities are 1..MaxRefs).
MaxRefs == 3

\* Longest items array handed to filterByPermission.
MaxItems == 3

\* Most builders registered at one time where the debug utilities run.
MaxDebugBuilders == 2

\* The cap of the change counter where the debug utilities run.
MaxDebugTrigger == 2

\* Most builders registered at one time where the calls are counted.
MaxCountBuilders == 3

\* The cap of the change counter where the calls are counted.
MaxCountTrigger == 4

(* --------------------------- optional values --------------------------- *)

\* An optional field (order?, path?, children?) is the empty set when absent
\* and a singleton when present.
None == {}

Some(x) == {x}

The(opt) == CHOOSE x \in opt : TRUE

(* ------------------------------ menu items ----------------------------- *)

\* Number.MAX_SAFE_INTEGER (2^53 - 1) on the model's scale of order values:
\* only the sign of a difference of two keys is ever used, so order values
\* are modelled by 0 .. MAX_SAFE_INTEGER + 1 with the comparisons kept.
MAX_SAFE_INTEGER == 3

MenuNames == {"main", "side"}

\* MenuItemConfig; icon, permission and meta are not read by the registry.
Item(id, title, path, order, children) ==
    [id |-> id, title |-> title, path |-> path, order |-> order, children |-> children]

Leaf(id, title, path, order) == Item(id, title, Some(path), order, None)

\* The seed of a rebuild: { id: menuName, title: menuName, children: [] }.
Seed(menuName) == Item(menuName, menuName, None, None, Some(<<>>))

(* ------------------------------- builders ------------------------------ *)

\* The builder instances calling code supplies.  Each is deterministic in
\* (menu, menuName) and does not call the registry.
\*   users    : pushes a section with order 2 and two children, out of order
\*   settings : pushes a leaf with order 1
\*   misc     : pushes a leaf without order and without path
\*   big      : pushes a leaf with order Number.MAX_SAFE_INTEGER and the empty
\*              path, on "main" only
\*   wrap     : returns a new menu object with a path: a home item (a path and
\*              an empty children list), then the menu's children
BuilderIds == {"users", "settings", "misc", "big", "wrap"}

UsersSection ==
    Item("users", "Users", None, Some(2),
         Some(<<Leaf("user-list", "User List", "/users", Some(2)),
                Leaf("user-new", "New User", "/users/new", Some(1))>>))

SettingsLeaf == Leaf("settings", "Settings", "/settings", Some(1))

MiscLeaf == Item("misc", "Misc", None, None, None)

BigLeaf == Leaf("big", "Big", "", Some(MAX_SAFE_INTEGER))

HomeLeaf == Item("home", "Home", Some("/"), Some(0), Some(<<>>))

\* if (!menu.children) menu.children = []; menu.children.push(item)
Push(tree, item) ==
    [tree EXCEPT !.children =
        Some((IF tree.children = None THEN <<>> ELSE The(tree.children)) \o <<item>>)]

\* Whether builder `b` returns a new object instead of the menu it was given.
Replaces(b) == b = "wrap"

\* builder.build(menu, menuName) on the menu's content.
Build(b, tree, menuName) ==
    CASE b = "users" -> Push(tree, UsersSection)
      [] b = "settings" -> Push(tree, SettingsLeaf)
      [] b = "misc" -> Push(tree, MiscLeaf)
      [] b = "big" -> IF menuName = "main" THEN Push(tree, BigLeaf) ELSE tree
      [] b = "wrap" ->
            Item(menuName, menuName, Some("/"), None,
                 Some(<<HomeLeaf>> \o
                      (IF tree.children = None THEN <<>> ELSE The(tree.children))))

(* ------------------------------ recursive sort ------------------------- *)

\* Faulty variant: a.order ?? 0, a missing order sorts first.
OrderKeyAbsentFirst(item) == IF item.order = None THEN 0 ELSE The(item.order)

\* a.order ?? Number.MAX_SAFE_INTEGER
OrderKey(item) == IF item.order = None THEN MAX_SAFE_INTEGER ELSE The(item.order)

\* The comparator of menu.children.sort: orderA - orderB.
Compare(a, b) == OrderKey(a) - OrderKey(b)

\* Array.prototype.sort is stable: `x` goes before the first element that the
\* comparator puts after it, and behind every element that compares equal.
RECURSIVE InsertSorted(_, _)
InsertSorted(sorted, x) ==
    IF sorted = <<>> THEN <<x>>
    ELSE IF Compare(Head(sorted), x) > 0 THEN <<x>> \o sorted
    ELSE <<Head(sorted)>> \o InsertSorted(Tail(sorted), x)

RECURSIVE SortChildren(_)
SortChildren(kids) ==
    IF kids = <<>> THEN <<>>
    ELSE InsertSorted(SortChildren(SubSeq(kids, 1, Len(kids) - 1)), kids[Len(kids)])

\* sortMenuItems(menu): sorts menu.children in place, then every child's.
RECURSIVE SortMenuItems(_)
SortMenuItems(tree) ==
    IF tree.children # None /\ Len(The(tree.children)) > 0
    THEN LET kids == SortChildren(The(tree.children))
         IN  [tree EXCEPT !.children =
                 Some([i \in 1..Len(kids) |-> SortMenuItems(kids[i])])]
    ELSE tree

(* --------------------------------- Map --------------------------------- *)

\* A JavaScript Map: entries [key, value] in insertion order.
MapKeys(m) == [i \in 1..Len(m) |-> m[i].key]

MapHas(m, k) == \E i \in 1..Len(m) : m[i].key = k

MapGet(m, k) == m[CHOOSE i \in 1..Len(m) : m[i].key = k].value

\* set(k, v): an existing key keeps its place.
MapSet(m, k, v) ==
    IF MapHas(m, k)
    THEN [i \in 1..Len(m) |-> IF m[i].key = k THEN [key |-> k, value |-> v] ELSE m[i]]
    ELSE Append(m, [key |-> k, value |-> v])

MapDelete(m, k) == SelectSeq(m, LAMBDA e : e.key # k)

Range(s) == {s[i] : i \in 1..Len(s)}

(* ---------------------------- call results ----------------------------- *)

\* What the last registry call returned.
RetVoid == [kind |-> "void", ref |-> 0, tree |-> None, ok |-> FALSE]

RetAbsent == [kind |-> "absent", ref |-> 0, tree |-> None, ok |-> FALSE]

RetBool(b) == [kind |-> "bool", ref |-> 0, tree |-> None, ok |-> b]

RetTree(obj) == [kind |-> "tree", ref |-> obj.ref, tree |-> Some(obj.tree), ok |-> FALSE]

\* The record of the last call: its method, its arguments, what it returned,
\* the builders it invoked in order and whether it sorted.
Call(op, name, builder, ret, ran, sorted) ==
    [op |-> op, name |-> name, builder |-> builder, ret |-> ret, ran |-> ran,
     sorted |-> sorted]

\* Per name, what getMenu last returned since the last register, unregister or clear.
NoReturned == [n \in MenuNames |-> RetVoid]

(* ------------------------------- rebuild ------------------------------- *)

\* Faulty variant: builder.build(menu, menuName) without `menu =`; the object a
\* builder returns is dropped and the next builder gets the old one.
RECURSIVE RunBuildersIgnoreReturn(_, _, _)
RunBuildersIgnoreReturn(bs, menu, menuName) ==
    IF bs = <<>> THEN menu
    ELSE LET b == Head(bs)
             out == [ref |-> menu.ref,
                     tree |-> IF Replaces(b) THEN menu.tree
                              ELSE Build(b, menu.tree, menuName),
                     next |-> IF Replaces(b) THEN menu.next + 1 ELSE menu.next]
         IN  RunBuildersIgnoreReturn(Tail(bs), out, menuName)

\* builders.forEach((builder) => { menu = builder.build(menu, menuName) }):
\* `menu` is [ref, tree, next], the object held, its content and the next
\* free object identity; a builder that returns a new object takes `next`.
RECURSIVE RunBuilders(_, _, _)
RunBuilders(bs, menu, menuName) ==
    IF bs = <<>> THEN menu
    ELSE LET b == Head(bs)
             out == [ref |-> IF Replaces(b) THEN menu.next ELSE menu.ref,
                     tree |-> Build(b, menu.tree, menuName),
                     next |-> IF Replaces(b) THEN menu.next + 1 ELSE menu.next]
         IN  RunBuilders(Tail(bs), out, menuName)

\* let menu = { id: menuName, title: menuName, children: [] }, a new object.
SeedObject(menuName, ref) == [ref |-> ref, tree |-> Seed(menuName), next |-> ref + 1]

\* The cache-miss path of getMenu: seed, fold, sort, cache, return.
Rebuild(bs, menuName, cache, ref) ==
    LET built == RunBuilders(bs, SeedObject(menuName, ref), menuName)
        menu == [ref |-> built.ref, tree |-> SortMenuItems(built.tree)]
    IN  [ret |-> RetTree(menu), ran |-> bs, sorted |-> TRUE,
         cache |-> MapSet(cache, menuName, menu), next |-> built.next]

\* A getMenu that builds nothing.
NoBuild(ret, cache, ref) ==
    [ret |-> ret, ran |-> <<>>, sorted |-> FALSE, cache |-> cache, next |-> ref]

\* Faulty variant: the cache is never consulted.
CacheHitNever(cache, menuName) == FALSE

\* if (this.menuCache.has(menuName))
CacheHit(cache, menuName) == MapHas(cache, menuName)

(* ------------------ scoped registry: config/menuRegistry.ts ------------ *)

\* register: if (!builders.has(menuName)) builders.set(menuName, []);
\*           builders.get(menuName).push(builder)
RegisterBuilders(bs, menuName, builder) ==
    LET withKey == IF MapHas(bs, menuName) THEN bs ELSE MapSet(bs, menuName, <<>>)
    IN  MapSet(withKey, menuName, Append(MapGet(withKey, menuName), builder))

\* Faulty variant: register forgets to invalidate.
RegisterCacheKeep(cache, menuName) == cache

\* Faulty variant: register drops every cached menu.
RegisterCacheAll(cache, menuName) == <<>>

\* register: this.menuCache.delete(menuName)
RegisterCache(cache, menuName) == MapDelete(cache, menuName)

\* register: menuUpdateTrigger.value++
RegisterTrigger(trigger) == trigger + 1

\* Faulty variant: unregister drops every cached menu.
UnregisterCacheAll(cache, menuName) == <<>>

\* unregister: this.menuCache.delete(menuName)
UnregisterCache(cache, menuName) == MapDelete(cache, menuName)

\* Faulty variant: unregister empties the list and keeps the key.
UnregisterBuildersEmpty(bs, menuName) ==
    IF MapHas(bs, menuName) THEN MapSet(bs, menuName, <<>>) ELSE bs

\* unregister: this.builders.delete(menuName); the result is whether the key was there.
UnregisterBuilders(bs, menuName) == MapDelete(bs, menuName)

\* unregister leaves menuUpdateTrigger alone (no menuUpdateTrigger.value++).
UnregisterTrigger(trigger) == trigger

\* getMenu: !builders || builders.length === 0
NoBuilders(bs, menuName) == ~MapHas(bs, menuName) \/ MapGet(bs, menuName) = <<>>

\* Faulty variant: a name without builders is built from the bare seed and cached.
GetMenuOutcomeAlwaysBuild(bs, cache, ref, menuName) ==
    IF CacheHit(cache, menuName)
    THEN NoBuild(RetTree(MapGet(cache, menuName)), cache, ref)
    ELSE Rebuild(IF MapHas(bs, menuName) THEN MapGet(bs, menuName) ELSE <<>>,
                 menuName, cache, ref)

\* getMenu(menuName) on a registry state: what it returns, the builders it runs,
\* and the cache and allocator it leaves.
GetMenuOutcome(bs, cache, ref, menuName) ==
    IF CacheHit(cache, menuName)
    THEN NoBuild(RetTree(MapGet(cache, menuName)), cache, ref)
    ELSE IF NoBuilders(bs, menuName)
    THEN NoBuild(RetAbsent, cache, ref)
    ELSE Rebuild(MapGet(bs, menuName), menuName, cache, ref)

\* getMenuNames: Array.from(this.builders.keys())
GetMenuNames(bs) == MapKeys(bs)

\* get size: this.builders.size
Size(bs) == Len(bs)

\* clear: this.builders.clear(); this.menuCache.clear()
ClearCache(cache) == <<>>

\* Faulty variant: clear resets the counter.
ClearTriggerReset(trigger) == 0

\* clear leaves menuUpdateTrigger alone.
ClearTrigger(trigger) == trigger

RECURSIVE TotalBuilders(_)
TotalBuilders(bs) ==
    IF bs = <<>> THEN 0 ELSE Len(Head(bs).value) + TotalBuilders(Tail(bs))

Register(menuName, builder) ==
    /\ variant = "scoped"
    /\ TotalBuilders(builders) < MaxBuilders
    /\ menuUpdateTrigger < MaxTrigger
    /\ builders' = RegisterBuilders(builders, menuName, builder)
    /\ menuCache' = RegisterCache(menuCache, menuName)
    /\ menuUpdateTrigger' = RegisterTrigger(menuUpdateTrigger)
    /\ last' = Call("register", menuName, builder, RetVoid, <<>>, FALSE)
    /\ returned' = NoReturned
    /\ requested' = {}
    /\ UNCHANGED <<filterVars, counted, variant, buildersU, nextRef>>

Unregister(menuName) ==
    /\ variant = "scoped"
    /\ UnregisterTrigger(menuUpdateTrigger) <= MaxTrigger
    /\ menuCache' = UnregisterCache(menuCache, menuName)
    /\ builders' = UnregisterBuilders(builders, menuName)
    /\ menuUpdateTrigger' = UnregisterTrigger(menuUpdateTrigger)
    /\ last' = Call("unregister", menuName, "", RetBool(MapHas(builders, menuName)),
                    <<>>, FALSE)
    /\ returned' = NoReturned
    /\ requested' = IF MapHas(builders, menuName) THEN {} ELSE requested
    /\ UNCHANGED <<filterVars, counted, variant, buildersU, nextRef>>

GetMenu(menuName) ==
    /\ variant = "scoped"
    /\ LET out == GetMenuOutcome(builders, menuCache, nextRef, menuName)
       IN  /\ out.next <= MaxRefs + 1
           /\ menuCache' = out.cache
           /\ nextRef' = out.next
           /\ last' = Call("getMenu", menuName, "", out.ret, out.ran, out.sorted)
           /\ returned' = IF out.ret.kind = "tree"
                          THEN [returned EXCEPT ![menuName] = out.ret]
                          ELSE returned
    /\ requested' = requested \cup {menuName}
    /\ UNCHANGED <<filterVars, counted, variant, builders, buildersU, menuUpdateTrigger>>

Clear ==
    /\ variant = "scoped"
    /\ builders' = <<>>
    /\ menuCache' = ClearCache(menuCache)
    /\ menuUpdateTrigger' = ClearTrigger(menuUpdateTrigger)
    /\ last' = Call("clear", "", "", RetVoid, <<>>, FALSE)
    /\ returned' = NoReturned
    /\ requested' = {}
    /\ UNCHANGED <<filterVars, counted, variant, buildersU, nextRef>>

(* ----------------------- unscoped registry: index.ts ------------------- *)

\* Faulty variant: a builder already in the list is not pushed again.
RegisterBuildersUOnce(bs, builder) ==
    IF \E i \in 1..Len(bs) : bs[i] = builder THEN bs ELSE Append(bs, builder)

\* register: this.builders.push(builder)
RegisterBuildersU(bs, builder) == Append(bs, builder)

\* Faulty variant: register forgets to invalidate.
RegisterCacheUKeep(cache) == cache

\* register: this.menuCache.clear()
RegisterCacheU(cache) == <<>>

\* register: menuUpdateTrigger.value++
RegisterTriggerU(trigger) == trigger + 1

\* Faulty variant: the search starts at index 1 and misses the first builder.
IndexOfFromOne(bs, builder) ==
    IF \E i \in 2..Len(bs) : bs[i] = builder
    THEN (CHOOSE i \in 2..Len(bs) :
              bs[i] = builder /\ \A j \in 2..(i - 1) : bs[j] # builder) - 1
    ELSE -1

\* this.builders.indexOf(builder): the first index from 0, or -1.
IndexOf(bs, builder) ==
    IF \E i \in 1..Len(bs) : bs[i] = builder
    THEN (CHOOSE i \in 1..Len(bs) :
              bs[i] = builder /\ \A j \in 1..(i - 1) : bs[j] # builder) - 1
    ELSE -1

\* this.builders.splice(index, 1)
Splice(bs, index) == SubSeq(bs, 1, index) \o SubSeq(bs, index + 2, Len(bs))

\* Faulty variant: unregister forgets to invalidate.
UnregisterCacheUKeep(cache) == cache

\* unregister, the found branch: this.menuCache.clear()
UnregisterCacheU(cache) == <<>>

\* unregister, the found branch: menuUpdateTrigger.value++
UnregisterTriggerU(trigger) == trigger + 1

\* getMenu(menuName): every builder runs, whatever the name.
GetMenuOutcomeU(bs, cache, ref, menuName) ==
    IF CacheHit(cache, menuName)
    THEN NoBuild(RetTree(MapGet(cache, menuName)), cache, ref)
    ELSE Rebuild(bs, menuName, cache, ref)

\* getMenuNames: Array.from(this.menuCache.keys())
GetMenuNamesU(cache) == MapKeys(cache)

\* getBuilderCount and size: this.builders.length
GetBuilderCount(bs) == Len(bs)

\* Faulty variant: clear keeps the cached menus.
ClearCacheUKeep(cache) == cache

\* clear: this.builders = []; this.menuCache.clear()
ClearCacheU(cache) == <<>>

\* clear leaves menuUpdateTrigger alone.
ClearTriggerU(trigger) == trigger

RegisterU(builder) ==
    /\ variant = "unscoped"
    /\ Len(buildersU) < MaxBuilders
    /\ menuUpdateTrigger < MaxTrigger
    /\ buildersU' = RegisterBuildersU(buildersU, builder)
    /\ menuCache' = RegisterCacheU(menuCache)
    /\ menuUpdateTrigger' = RegisterTriggerU(menuUpdateTrigger)
    /\ last' = Call("register", "", builder, RetVoid, <<>>, FALSE)
    /\ returned' = NoReturned
    /\ requested' = {}
    /\ UNCHANGED <<filterVars, counted, variant, builders, nextRef>>

UnregisterU(builder) ==
    /\ variant = "unscoped"
    /\ LET index == IndexOf(buildersU, builder)
       IN  IF index # -1
           THEN /\ menuUpdateTrigger < MaxTrigger
                /\ buildersU' = Splice(buildersU, index)
                /\ menuCache' = UnregisterCacheU(menuCache)
                /\ menuUpdateTrigger' = UnregisterTriggerU(menuUpdateTrigger)
                /\ last' = Call("unregister", "", builder, RetBool(TRUE), <<>>, FALSE)
                /\ requested' = {}
           ELSE /\ last' = Call("unregister", "", builder, RetBool(FALSE), <<>>, FALSE)
                /\ UNCHANGED <<buildersU, menuCache, menuUpdateTrigger, requested>>
    /\ returned' = NoReturned
    /\ UNCHANGED <<filterVars, counted, variant, builders, nextRef>>

GetMenuU(menuName) ==
    /\ variant = "unscoped"
    /\ LET out == GetMenuOutcomeU(buildersU, menuCache, nextRef, menuName)
       IN  /\ out.next <= MaxRefs + 1
           /\ menuCache' = out.cache
           /\ nextRef' = out.next
           /\ last' = Call("getMenu", menuName, "", out.ret, out.ran, out.sorted)
           /\ returned' = [returned EXCEPT ![menuName] = out.ret]
    /\ requested' = requested \cup {menuName}
    /\ UNCHANGED <<filterVars, counted, variant, builders, buildersU, menuUpdateTrigger>>

ClearU ==
    /\ variant = "unscoped"
    /\ buildersU' = <<>>
    /\ menuCache' = ClearCacheU(menuCache)
    /\ menuUpdateTrigger' = ClearTriggerU(menuUpdateTrigger)
    /\ last' = Call("clear", "", "", RetVoid, <<>>, FALSE)
    /\ returned' = NoReturned
    /\ requested' = {}
    /\ UNCHANGED <<filterVars, counted, variant, builders, nextRef>>

(* ------------------ findMenuItemById: config/menuInitializer ----------- *)

\* A node of a tree is named by its path: the child indices from the root.
RECURSIVE NodeAt(_, _)
NodeAt(tree, path) ==
    IF path = <<>> THEN tree ELSE NodeAt(The(tree.children)[Head(path)], Tail(path))

RECURSIVE Search(_, _, _)

\* Faulty variant: the loop goes on after a match and keeps the last one.
RECURSIVE SearchChildrenLast(_, _, _, _)
SearchChildrenLast(kids, id, path, i) ==
    IF i > Len(kids) THEN None
    ELSE LET rest == SearchChildrenLast(kids, id, path, i + 1)
         IN  IF rest # None THEN rest ELSE Search(kids[i], id, Append(path, i))

\* for (const child of item.children) { const found = search(child);
\*                                      if (found) return found }
RECURSIVE SearchChildren(_, _, _, _)
SearchChildren(kids, id, path, i) ==
    IF i > Len(kids) THEN None
    ELSE LET found == Search(kids[i], id, Append(path, i))
         IN  IF found # None THEN found ELSE SearchChildren(kids, id, path, i + 1)

\* search(item): the node itself, else the first hit among its children, else
\* undefined.  The result is the path of the node returned.
Search(item, id, path) ==
    IF item.id = id THEN Some(path)
    ELSE IF item.children # None THEN SearchChildren(The(item.children), id, path, 1)
    ELSE None

\* findMenuItemById(menu, id)
FindMenuItemById(menu, id) == Search(menu, id, <<>>)

(* ---------------------- debug utilities: lib/menuDebug ----------------- *)

\* menuInitializer.getMenu(menuName): menuRegistry.getMenu of the revision in use.
RegistryGetMenu(cache, ref, menuName) ==
    IF variant = "scoped"
    THEN GetMenuOutcome(builders, cache, ref, menuName)
    ELSE GetMenuOutcomeU(buildersU, cache, ref, menuName)

\* menuInitializer.getMenuNames(): menuRegistry.getMenuNames of the revision in use.
RegistryGetMenuNames ==
    IF variant = "scoped" THEN GetMenuNames(builders) ELSE GetMenuNamesU(menuCache)

\* menuNames.forEach(menuName => { const menu = getMenu(menuName) ... }): the
\* getMenu calls of a utility, in order, from cache `cache` and allocator `ref`;
\* `menus` collects [name, ret].  What a utility does with a menu changes no
\* registry state, so the reads are modelled before the walk of the menus.
RECURSIVE ReadMenus(_, _)
ReadMenus(names, acc) ==
    IF names = <<>> THEN acc
    ELSE LET out == RegistryGetMenu(acc.cache, acc.next, Head(names))
         IN  ReadMenus(Tail(names),
                       [cache |-> out.cache, next |-> out.next,
                        menus |-> Append(acc.menus, [name |-> Head(names), ret |-> out.ret])])

\* The reads of a utility called in the current state.
UtilityReads ==
    ReadMenus(RegistryGetMenuNames, [cache |-> menuCache, next |-> nextRef, menus |-> <<>>])

\* A JavaScript string or undefined used as a condition (item.path).
Truthy(opt) == opt # None /\ The(opt) # ""

\* Faulty variant: the children list counts whatever its length.
HasChildrenAndPathAnyLength(item) == item.children # None /\ Truthy(item.path)

\* item.children && item.children.length > 0 && item.path
HasChildrenAndPath(item) ==
    item.children # None /\ Len(The(item.children)) > 0 /\ Truthy(item.path)

\* !item.children && !item.path
HasNoChildrenAndNoPath(item) == item.children = None /\ ~Truthy(item.path)

\* Faulty variant: one set of seen ids for all menus.
FreshSeenShared(seen) == seen

\* const seenIds = new Set<string>(), once per menu.
FreshSeen(seen) == {}

\* validateItem(item, path): `acc` is [seen, errors, warnings]; a message is
\* kept as [kind, id, at], `at` the ids of currentPath (those the message joins).
RECURSIVE ValidateItem(_, _, _)
ValidateItem(item, path, acc) ==
    LET currentPath == Append(path, item.id)
        a1 == IF item.id \in acc.seen
              THEN [acc EXCEPT !.errors =
                       Append(@, [kind |-> "duplicate", id |-> item.id, at |-> currentPath])]
              ELSE [acc EXCEPT !.seen = @ \cup {item.id}]
        a2 == IF HasChildrenAndPath(item)
              THEN [a1 EXCEPT !.warnings =
                       Append(@, [kind |-> "both", id |-> item.id, at |-> <<>>])]
              ELSE a1
        a3 == IF HasNoChildrenAndNoPath(item)
              THEN [a2 EXCEPT !.warnings =
                       Append(@, [kind |-> "dead", id |-> item.id, at |-> currentPath])]
              ELSE a2
        kids == IF item.children = None THEN <<>> ELSE The(item.children)
        walk[i \in 0..Len(kids)] ==
            IF i = 0 THEN a3 ELSE ValidateItem(kids[i], currentPath, walk[i - 1])
    IN  walk[Len(kids)]

\* The body of menuNames.forEach in validateMenus, for one [name, ret].
ValidateMenu(menu, acc) ==
    IF menu.ret.kind # "tree"
    THEN [acc EXCEPT !.errors =
             Append(@, [kind |-> "undefined", id |-> menu.name, at |-> <<>>])]
    ELSE ValidateItem(The(menu.ret.tree), <<>>, [acc EXCEPT !.seen = FreshSeen(@)])

\* validateMenus() on the menus read: { valid, errors, warnings }.
ValidateMenusReport(menus) ==
    LET walk[i \in 0..Len(menus)] ==
            IF i = 0 THEN [seen |-> {}, errors |-> <<>>, warnings |-> <<>>]
            ELSE ValidateMenu(menus[i], walk[i - 1])
        done == walk[Len(menus)]
    IN  [valid |-> Len(done.errors) = 0, errors |-> done.errors,
         warnings |-> done.warnings]

\* What the getMenu calls of a utility leave in `returned`.
RECURSIVE ReturnedAfter(_, _)
ReturnedAfter(menus, ret) ==
    IF menus = <<>> THEN ret
    ELSE ReturnedAfter(Tail(menus),
                       IF Head(menus).ret.kind = "tree"
                       THEN [ret EXCEPT ![Head(menus).name] = Head(menus).ret]
                       ELSE ret)

\* The registry side of a debug utility: its getMenu calls fill the cache.
UtilityCall(op, arg) ==
    LET reads == UtilityReads
    IN  /\ reads.next <= MaxRefs + 1
        /\ menuCache' = reads.cache
        /\ nextRef' = reads.next
        /\ last' = Call(op, arg, "", RetVoid, <<>>, FALSE)
        /\ returned' = ReturnedAfter(reads.menus, returned)
        /\ requested' = requested \cup Range(RegistryGetMenuNames)
        /\ UNCHANGED <<filterVars, counted, variant, builders, buildersU, menuUpdateTrigger>>

\* validateMenus(); its report is ValidateMenusReport(UtilityReads.menus).
ValidateMenus == UtilityCall("validateMenus", "")

\* The characters of the strings the model's titles and search terms are.
Chars(s) ==
    CASE s = "main" -> <<"m", "a", "i", "n">>
      [] s = "side" -> <<"s", "i", "d", "e">>
      [] s = "Users" -> <<"U", "s", "e", "r", "s">>
      [] s = "User List" -> <<"U", "s", "e", "r", " ", "L", "i", "s", "t">>
      [] s = "New User" -> <<"N", "e", "w", " ", "U", "s", "e", "r">>
      [] s = "Settings" -> <<"S", "e", "t", "t", "i", "n", "g", "s">>
      [] s = "Misc" -> <<"M", "i", "s", "c">>
      [] s = "Big" -> <<"B", "i", "g">>
      [] s = "Home" -> <<"H", "o", "m", "e">>
      [] s = "user" -> <<"u", "s", "e", "r">>
      [] s = "SET" -> <<"S", "E", "T">>
      [] s = "zz" -> <<"z", "z">>

LowerChar(c) ==
    CASE c = "B" -> "b" [] c = "E" -> "e" [] c = "H" -> "h" [] c = "L" -> "l"
      [] c = "M" -> "m" [] c = "N" -> "n" [] c = "S" -> "s" [] c = "T" -> "t"
      [] c = "U" -> "u" [] OTHER -> c

\* Faulty variant: the string as it is, the match is case-sensitive.
KeepCase(cs) == cs

\* String.prototype.toLowerCase
ToLowerCase(cs) == [i \in 1..Len(cs) |-> LowerChar(cs[i])]

\* String.prototype.includes
Includes(cs, part) ==
    \E i \in 0..(Len(cs) - Len(part)) : SubSeq(cs, i + 1, i + Len(part)) = part

\* search(item): the item when its title matches, then its children in order.
\* A result pairs the menu name with the item, named by its path in the menu.
RECURSIVE SearchItem(_, _, _, _, _)
SearchItem(item, path, menuName, lowerSearch, results) ==
    LET own == IF Includes(ToLowerCase(Chars(item.title)), lowerSearch)
               THEN Append(results, [menuName |-> menuName, item |-> path])
               ELSE results
        kids == IF item.children = None THEN <<>> ELSE The(item.children)
        walk[i \in 0..Len(kids)] ==
            IF i = 0 THEN own
            ELSE SearchItem(kids[i], Append(path, i), menuName, lowerSearch, walk[i - 1])
    IN  walk[Len(kids)]

\* The array searchMenusByTitle(searchTerm) returns over the menus it read.
RECURSIVE SearchMenusResult(_, _, _)
SearchMenusResult(menus, searchTerm, results) ==
    IF menus = <<>> THEN results
    ELSE SearchMenusResult(
            Tail(menus), searchTerm,
            IF Head(menus).ret.kind # "tree" THEN results
            ELSE SearchItem(The(Head(menus).ret.tree), <<>>, Head(menus).name,
                            ToLowerCase(Chars(searchTerm)), results))

\* The terms calling code searches for.
SearchTerms == {"user", "SET", "zz"}

\* searchMenusByTitle(searchTerm); its result is
\* SearchMenusResult(UtilityReads.menus, searchTerm, <<>>).
SearchMenusByTitle(searchTerm) == UtilityCall("searchMenusByTitle", searchTerm)

(* ------------------- useMenu: filterByPermission ----------------------- *)

\* The permission tags of the items: none, the empty string, two names.
PermissionTags == {None, Some(""), Some("admin"), Some("user")}

\* The userPermissions argument: left out, or a list.
PermissionLists ==
    {None, Some(<<>>), Some(<<"admin">>), Some(<<"user">>), Some(<<"admin", "user">>)}

\* Faulty variant: an empty list counts as no list.
NoPermissionsOrEmpty(perms) == perms = None \/ The(perms) = <<>>

\* !userPermissions: an array, also an empty one, is truthy.
NoPermissions(perms) == perms = None

\* The filter callback: !item.permission, else userPermissions.includes(...).
KeepItem(item, perms) ==
    \/ ~Truthy(item.permission)
    \/ \E i \in 1..Len(perms) : perms[i] = The(item.permission)

\* Array.prototype.filter with KeepItem.
RECURSIVE Filter(_, _)
Filter(arr, perms) ==
    IF arr = <<>> THEN <<>>
    ELSE (IF KeepItem(Head(arr), perms) THEN <<Head(arr)>> ELSE <<>>)
         \o Filter(Tail(arr), perms)

\* filterByPermission(items, userPermissions): the array returned and whether
\* it is the `items` array itself.
FilterByPermission(arr, perms) ==
    IF NoPermissions(perms)
    THEN [same |-> TRUE, items |-> arr]
    ELSE [same |-> FALSE, items |-> Filter(arr, The(perms))]

\* A call of the filter on the arguments drawn.
ApplyFilter ==
    /\ filtered = None
    /\ filtered' = Some(FilterByPermission(items, userPermissions))
    /\ UNCHANGED <<items, userPermissions, counted, variant, builders, buildersU, menuCache,
                   menuUpdateTrigger, nextRef, last, returned, requested>>

(* ------------------------- counting the calls -------------------------- *)

\* Per builder instance, the register(builder) calls and the unregister(builder)
\* calls that returned true since construction or the last clear().  SpecCount
\* keeps the count; the other specifications leave it at zero.
NoneCounted ==
    [registered |-> [b \in BuilderIds |-> 0], unregistered |-> [b \in BuilderIds |-> 0]]

\* The builder instances the counted program registers.
CountBuilderIds == {"users", "settings", "misc"}

\* register(builder), counted.
CountRegister(builder) ==
    /\ variant = "unscoped"
    /\ Len(buildersU) < MaxCountBuilders
    /\ menuUpdateTrigger < MaxCountTrigger
    /\ buildersU' = RegisterBuildersU(buildersU, builder)
    /\ menuCache' = RegisterCacheU(menuCache)
    /\ menuUpdateTrigger' = RegisterTriggerU(menuUpdateTrigger)
    /\ last' = Call("register", "", builder, RetVoid, <<>>, FALSE)
    /\ returned' = NoReturned
    /\ requested' = {}
    /\ counted' = [counted EXCEPT !.registered[builder] = @ + 1]
    /\ UNCHANGED <<filterVars, variant, builders, nextRef>>

\* unregister(builder), counted when it returns true.
CountUnregister(builder) ==
    /\ variant = "unscoped"
    /\ LET index == IndexOf(buildersU, builder)
       IN  IF index # -1
           THEN /\ menuUpdateTrigger < MaxCountTrigger
                /\ buildersU' = Splice(buildersU, index)
                /\ menuCache' = UnregisterCacheU(menuCache)
                /\ menuUpdateTrigger' = UnregisterTriggerU(menuUpdateTrigger)
                /\ last' = Call("unregister", "", builder, RetBool(TRUE), <<>>, FALSE)
                /\ requested' = {}
                /\ counted' = [counted EXCEPT !.unregistered[builder] = @ + 1]
           ELSE /\ last' = Call("unregister", "", builder, RetBool(FALSE), <<>>, FALSE)
                /\ UNCHANGED <<buildersU, menuCache, menuUpdateTrigger, requested,
                               counted>>
    /\ returned' = NoReturned
    /\ UNCHANGED <<filterVars, variant, builders, nextRef>>

\* clear(): the counts start again.
CountClear ==
    /\ variant = "unscoped"
    /\ buildersU' = <<>>
    /\ menuCache' = ClearCacheU(menuCache)
    /\ menuUpdateTrigger' = ClearTriggerU(menuUpdateTrigger)
    /\ last' = Call("clear", "", "", RetVoid, <<>>, FALSE)
    /\ returned' = NoReturned
    /\ requested' = {}
    /\ counted' = NoneCounted
    /\ UNCHANGED <<filterVars, variant, builders, nextRef>>

(* ----------------------------- specification --------------------------- *)

\* The state after construction: no builder, an empty cache, trigger ref(0).
Init ==
    /\ variant \in {"scoped", "unscoped"}
    /\ builders = <<>>
    /\ buildersU = <<>>
    /\ menuCache = <<>>
    /\ menuUpdateTrigger = 0
    /\ nextRef = 1
    /\ last = Call("new", "", "", RetVoid, <<>>, FALSE)
    /\ returned = NoReturned
    /\ requested = {}
    /\ items = <<>>
    /\ userPermissions = None
    /\ filtered = None
    /\ counted = NoneCounted

Next ==
    \/ \E n \in MenuNames, b \in BuilderIds : Register(n, b)
    \/ \E n \in MenuNames : Unregister(n)
    \/ \E n \in MenuNames : GetMenu(n)
    \/ Clear
    \/ \E b \in BuilderIds : RegisterU(b)
    \/ \E b \in BuilderIds : UnregisterU(b)
    \/ \E n \in MenuNames : GetMenuU(n)
    \/ ClearU

Spec == Init /\ [][Next]_vars

\* The registry with the debug utilities of lib/menuDebug called on it, on
\* registries of at most MaxDebugBuilders builders and MaxDebugTrigger changes.
DebugRoom(count) == count < MaxDebugBuilders /\ menuUpdateTrigger < MaxDebugTrigger

NextDebug ==
    \/ \E n \in MenuNames, b \in BuilderIds :
          DebugRoom(TotalBuilders(builders)) /\ Register(n, b)
    \/ \E n \in MenuNames : Unregister(n)
    \/ \E n \in MenuNames : GetMenu(n)
    \/ Clear
    \/ \E b \in BuilderIds : DebugRoom(Len(buildersU)) /\ RegisterU(b)
    \/ \E b \in BuilderIds : menuUpdateTrigger < MaxDebugTrigger /\ UnregisterU(b)
    \/ \E n \in MenuNames : GetMenuU(n)
    \/ ClearU
    \/ ValidateMenus
    \/ \E t \in SearchTerms : SearchMenusByTitle(t)

SpecDebug == Init /\ [][NextDebug]_vars

\* The unscoped registry with its register and unregister calls counted.
InitCount ==
    /\ Init
    /\ variant = "unscoped"

NextCount ==
    \/ \E b \in CountBuilderIds : CountRegister(b)
    \/ \E b \in CountBuilderIds : CountUnregister(b)
    \/ \E n \in MenuNames : GetMenuU(n)
    \/ CountClear

SpecCount == InitCount /\ [][NextCount]_vars

\* The arrays of items filterByPermission is handed: item k has id k.
ItemArrays ==
    UNION {[1..n -> PermissionTags] : n \in 0..MaxItems}

InitFilter ==
    /\ variant = "scoped"
    /\ builders = <<>>
    /\ buildersU = <<>>
    /\ menuCache = <<>>
    /\ menuUpdateTrigger = 0
    /\ nextRef = 1
    /\ last = Call("new", "", "", RetVoid, <<>>, FALSE)
    /\ returned = NoReturned
    /\ requested = {}
    /\ \E tags \in ItemArrays :
          items = [k \in 1..Len(tags) |-> [id |-> k, permission |-> tags[k]]]
    /\ userPermissions \in PermissionLists
    /\ filtered = None
    /\ counted = NoneCounted

NextFilter == ApplyFilter

SpecFilter == InitFilter /\ [][NextFilter]_vars

(* ------------------------- what the claims read ------------------------ *)

\* Every tree the registry holds or has just returned.
BuiltTrees ==
    {menuCache[i].value.tree : i \in 1..Len(menuCache)} \cup last.ret.tree

\* `a` may stand before `b` when a missing order is greater than every order.
ClaimedBefore(a, b) ==
    /\ ~(a.order = None /\ b.order # None)
    /\ (a.order # None /\ b.order # None) => The(a.order) <= The(b.order)

\* The sort key of a child: its order, Number.MAX_SAFE_INTEGER without one.
SortKey(item) == IF item.order = None THEN MAX_SAFE_INTEGER ELSE The(item.order)

\* `a` may stand before `b` when children are compared by sort key.
KeyBefore(a, b) == SortKey(a) <= SortKey(b)

\* Whether every two neighbouring children of every node of `tree` are in
\* order: by sort key when `byKey`, else with a missing order greatest.
RECURSIVE SortedAtEveryDepth(_, _)
SortedAtEveryDepth(tree, byKey) ==
    \/ tree.children = None
    \/ LET kids == The(tree.children)
       IN  /\ \A i \in 1..(Len(kids) - 1) :
                  IF byKey THEN KeyBefore(kids[i], kids[i + 1])
                  ELSE ClaimedBefore(kids[i], kids[i + 1])
           /\ \A i \in 1..Len(kids) : SortedAtEveryDepth(kids[i], byKey)

\* The builders a rebuild of `menuName` folds: those of the name (scoped) or all.
ApplicableBuilders(menuName) ==
    IF variant = "scoped"
    THEN IF MapHas(builders, menuName) THEN MapGet(builders, menuName) ELSE <<>>
    ELSE buildersU

\* The content of folding `bs` in order over `tree`.
RECURSIVE FoldBuilders(_, _, _)
FoldBuilders(bs, tree, menuName) ==
    IF bs = <<>> THEN tree
    ELSE FoldBuilders(Tail(bs), Build(Head(bs), tree, menuName), menuName)

\* The tree a fold of `bs` over a fresh seed gives, sorted recursively.
FreshBuild(bs, menuName) == SortMenuItems(FoldBuilders(bs, Seed(menuName), menuName))

\* What getMenu(menuName) would do in the current state.
NextGetMenu(menuName) ==
    IF variant = "scoped"
    THEN GetMenuOutcome(builders, menuCache, nextRef, menuName)
    ELSE GetMenuOutcomeU(buildersU, menuCache, nextRef, menuName)

(* -------------------------------- C1 ----------------------------------- *)

\* C1 as stated: in every tree getMenu builds, at every node at every depth,
\* the children are in non-decreasing order and a child without order comes
\* after every child that has one.
C1_SortedAbsentAfterAll == \A t \in BuiltTrees : SortedAtEveryDepth(t, FALSE)

\* C1 amended: in every tree getMenu builds, at every node at every depth, the
\* children are in non-decreasing sort key, the key of a child being its order,
\* or Number.MAX_SAFE_INTEGER when it has none.
C1_SortedByKey == \A t \in BuiltTrees : SortedAtEveryDepth(t, TRUE)

\* A rebuild whose first builder pushed the child without order and whose
\* result holds it behind a child with an order, with a sorted nested level.
C1_Witness ==
    /\ last.op = "getMenu" /\ last.sorted
    /\ Len(last.ran) = 2 /\ last.ran[1] = "misc"
    /\ LET kids == The(The(last.ret.tree).children)
       IN  /\ Len(kids) = 2
           /\ kids[1].order # None /\ kids[2].order = None
           /\ kids[1].children # None /\ Len(The(kids[1].children)) = 2

(* -------------------------------- C2 ----------------------------------- *)

\* C2: after any sequence of calls, the tree getMenu(name) returns equals the
\* fold of the currently registered builders (of the name when scoped, all of
\* them when unscoped) in registration order over a fresh seed, sorted
\* recursively; the scoped registry returns the absent value exactly for a name
\* without builders.
C2_CacheNeverStale ==
    /\ \A n \in MenuNames :
          LET out == NextGetMenu(n)
          IN  IF variant = "scoped" /\ ApplicableBuilders(n) = <<>>
              THEN out.ret = RetAbsent
              ELSE /\ out.ret.kind = "tree"
                   /\ out.ret.tree = Some(FreshBuild(ApplicableBuilders(n), n))
    /\ (last.op = "getMenu" /\ last.ret.kind = "tree") =>
          last.ret.tree = Some(FreshBuild(ApplicableBuilders(last.name), last.name))

\* A tree served from the cache after at least two registry mutations.
C2_Witness ==
    /\ last.op = "getMenu" /\ last.ret.kind = "tree"
    /\ ~last.sorted /\ last.ran = <<>>
    /\ menuUpdateTrigger >= 2
    /\ Len(ApplicableBuilders(last.name)) >= 1

(* -------------------------------- C3 ----------------------------------- *)

\* C3: a getMenu(name) that follows a getMenu(name) which returned a tree,
\* with no register, unregister or clear in between, returns the identical
\* object, invokes no builder and does not sort.
C3_SecondCallIsCached ==
    [][\A n \in MenuNames :
          (last'.op = "getMenu" /\ last'.name = n /\ returned[n].kind = "tree")
             => /\ last'.ret = returned[n]
                /\ last'.ran = <<>>
                /\ ~last'.sorted]_vars

\* A second getMenu of a name: served from the cache, the object of the first.
C3_Witness ==
    /\ last.op = "getMenu" /\ last.ret.kind = "tree"
    /\ ~last.sorted /\ last.ran = <<>>
    /\ returned[last.name] = last.ret
    /\ Len(ApplicableBuilders(last.name)) >= 1

(* -------------------------------- C4 ----------------------------------- *)

\* C4: scoped register(N, b) removes N's cache entry and no other: the next
\* getMenu(M) of every other cached name M returns the object cached before
\* and runs no builder; the next getMenu(N) runs every builder of N, b last,
\* over a fresh seed.
C4_RegisterInvalidatesOnlyN ==
    [][(variant = "scoped" /\ last'.op = "register") =>
          LET N == last'.name
              nextN == GetMenuOutcome(builders', menuCache', nextRef', N)
              before == IF MapHas(builders, N) THEN MapGet(builders, N) ELSE <<>>
          IN  /\ ~MapHas(menuCache', N)
              /\ \A M \in MenuNames \ {N} :
                    MapHas(menuCache, M) =>
                       LET nextM == GetMenuOutcome(builders', menuCache', nextRef', M)
                       IN  /\ MapHas(menuCache', M)
                           /\ nextM.ret = RetTree(MapGet(menuCache, M))
                           /\ nextM.ran = <<>> /\ ~nextM.sorted
              /\ nextN.ran = Append(before, last'.builder)
              /\ nextN.sorted
              /\ nextN.ret.ref >= nextRef'
              /\ nextN.ret.tree = Some(FreshBuild(nextN.ran, N))]_vars

\* After register(N, b) with N holding two builders, another name is still cached.
C4_Witness ==
    /\ variant = "scoped" /\ last.op = "register"
    /\ Len(MapGet(builders, last.name)) = 2
    /\ \E M \in MenuNames \ {last.name} : MapHas(menuCache, M)

(* -------------------------------- C5 ----------------------------------- *)

\* C5: unscoped register(b) leaves no name cached: the next getMenu of any
\* name runs every registered builder, b last, over a fresh seed.
C5_RegisterInvalidatesAll ==
    [][(variant = "unscoped" /\ last'.op = "register") =>
          /\ menuCache' = <<>>
          /\ \A n \in MenuNames :
                LET out == GetMenuOutcomeU(buildersU', menuCache', nextRef', n)
                IN  /\ out.ran = Append(buildersU, last'.builder)
                    /\ out.sorted
                    /\ out.ret.ref >= nextRef'
                    /\ out.ret.tree = Some(FreshBuild(out.ran, n))]_vars

\* After the second register, with trees built before it, nothing is cached.
C5_Witness ==
    /\ variant = "unscoped" /\ last.op = "register"
    /\ Len(buildersU) = 2 /\ nextRef >= 3
    /\ menuCache = <<>>

(* -------------------------------- C6 ----------------------------------- *)

\* C6: in both variants, an unregister that removes at least one builder
\* invalidates the affected cache entries and increments the change counter.
C6_UnregisterBumpsTrigger ==
    [][(last'.op = "unregister" /\ last'.ret.ok) =>
          /\ menuUpdateTrigger' = menuUpdateTrigger + 1
          /\ IF variant = "scoped"
             THEN ~MapHas(menuCache', last'.name)
             ELSE menuCache' = <<>>]_vars

(* -------------------------------- C7 ----------------------------------- *)

\* C7: the change counter never decreases; each register raises it by exactly
\* one; clear and getMenu leave it unchanged.
C7_TriggerMonotone ==
    [][/\ menuUpdateTrigger' >= menuUpdateTrigger
       /\ last'.op = "register" => menuUpdateTrigger' = menuUpdateTrigger + 1
       /\ last'.op \in {"clear", "getMenu"} => menuUpdateTrigger' = menuUpdateTrigger]_vars

\* A clear that followed registrations and left the counter where it was.
C7_Witness ==
    /\ last.op = "clear"
    /\ menuUpdateTrigger >= 2
    /\ builders = <<>> /\ buildersU = <<>> /\ menuCache = <<>>

(* -------------------------------- C8 ----------------------------------- *)

\* C8: scoped getMenu(name) of a name without registered builder returns the
\* absent value and leaves the builder map, the cache (no entry for name) and
\* the change counter unchanged.
C8_AbsentLeavesStateAlone ==
    [][(variant = "scoped" /\ last'.op = "getMenu"
        /\ (~MapHas(builders, last'.name) \/ MapGet(builders, last'.name) = <<>>)) =>
          /\ last'.ret = RetAbsent
          /\ last'.ran = <<>> /\ ~last'.sorted
          /\ builders' = builders
          /\ menuCache' = menuCache
          /\ ~MapHas(menuCache', last'.name)
          /\ menuUpdateTrigger' = menuUpdateTrigger]_vars

\* getMenu returned the absent value while another name has builders and is cached.
C8_Witness ==
    /\ variant = "scoped" /\ last.op = "getMenu" /\ last.ret = RetAbsent
    /\ ~MapHas(builders, last.name)
    /\ Len(builders) = 1 /\ Len(menuCache) = 1

(* -------------------------------- C9 ----------------------------------- *)

\* C9: scoped getMenuNames() returns exactly the names with at least one
\* registered builder, which are exactly the names getMenu returns a tree for.
C9_NamesAreBuilderNames ==
    variant = "scoped" =>
       LET names == GetMenuNames(builders)
       IN  /\ Range(names) =
                 {n \in MenuNames : MapHas(builders, n) /\ Len(MapGet(builders, n)) >= 1}
           /\ Range(names) =
                 {n \in MenuNames :
                     GetMenuOutcome(builders, menuCache, nextRef, n).ret.kind = "tree"}
           /\ \A i, j \in 1..Len(names) : names[i] = names[j] => i = j

\* After an unregister that removed builders, one name is left.
C9_Witness ==
    /\ variant = "scoped" /\ last.op = "unregister" /\ last.ret.ok
    /\ GetMenuNames(builders) = <<CHOOSE n \in MenuNames : n # last.name>>

(* -------------------------------- C10 ---------------------------------- *)

\* C10: unscoped getMenu(name) always returns a tree (the bare seed when no
\* builder is registered) and caches it; getMenuNames() returns exactly the
\* names passed to getMenu since the most recent register, successful
\* unregister or clear, and is empty right after any of those.
C10_NamesAreCachedNames ==
    variant = "unscoped" =>
       LET names == GetMenuNamesU(menuCache)
       IN  /\ Range(names) = requested
           /\ \A i, j \in 1..Len(names) : names[i] = names[j] => i = j
           /\ (\/ last.op \in {"register", "clear"}
               \/ (last.op = "unregister" /\ last.ret.ok)) => names = <<>>
           /\ last.op = "getMenu" =>
                 /\ last.ret.kind = "tree"
                 /\ MapHas(menuCache, last.name)
                 /\ RetTree(MapGet(menuCache, last.name)) = last.ret
                 /\ buildersU = <<>> => last.ret.tree = Some(Seed(last.name))

\* With no builder registered, both names were read: both are bare seeds, cached.
C10_Witness ==
    /\ variant = "unscoped" /\ last.op = "getMenu"
    /\ buildersU = <<>> /\ menuUpdateTrigger >= 1
    /\ last.ret.tree = Some(Seed(last.name))
    /\ Len(GetMenuNamesU(menuCache)) = 2

(* -------------------------------- C11 ---------------------------------- *)

\* The value the i-th builder of `bs` returns when the first gets the fresh
\* seed and each later one what the one before it returned.
ChainOutput(bs, menuName) ==
    LET out[i \in 0..Len(bs)] ==
            IF i = 0 THEN Seed(menuName) ELSE Build(bs[i], out[i - 1], menuName)
    IN  out[Len(bs)]

\* How many builders of `bs` return a new object.
NumReplacing(bs) == Cardinality({i \in 1..Len(bs) : Replaces(bs[i])})

\* C11: a cache-miss rebuild runs the builders in registration order, the
\* first on the fresh seed and each later one on what the previous returned;
\* what the last one returned (the seed object unless a builder replaced it)
\* is the tree that is sorted, cached and returned.
C11_BuildersChainInOrder ==
    [][(last'.op = "getMenu" /\ last'.sorted) =>
          /\ last'.ran = ApplicableBuilders(last'.name)
          /\ last'.ret.kind = "tree"
          /\ last'.ret.tree = Some(SortMenuItems(ChainOutput(last'.ran, last'.name)))
          /\ last'.ret.ref = nextRef + NumReplacing(last'.ran)
          /\ MapHas(menuCache', last'.name)
          /\ RetTree(MapGet(menuCache', last'.name)) = last'.ret]_vars

\* A rebuild of three builders whose second replaced the menu object.
C11_Witness ==
    /\ last.op = "getMenu" /\ last.sorted
    /\ Len(last.ran) = 3 /\ Replaces(last.ran[2]) /\ ~Replaces(last.ran[3])
    /\ last.ret.ref >= 2

(* -------------------------------- C12 ---------------------------------- *)

\* C12: after clear() no builder is registered and no tree is cached: size is
\* 0; scoped getMenu returns the absent value for every name and
\* getMenuNames() is empty; unscoped getMenu returns the bare seed.
C12_ClearEmptiesRegistry ==
    last.op = "clear" =>
       /\ menuCache = <<>>
       /\ IF variant = "scoped"
          THEN /\ Size(builders) = 0
               /\ GetMenuNames(builders) = <<>>
               /\ \A n \in MenuNames : NextGetMenu(n).ret = RetAbsent
          ELSE /\ GetBuilderCount(buildersU) = 0
               /\ \A n \in MenuNames :
                     /\ NextGetMenu(n).ret.tree = Some(Seed(n))
                     /\ NextGetMenu(n).ran = <<>>

\* A clear after two trees had been built.
C12_Witness ==
    /\ last.op = "clear" /\ nextRef >= 3 /\ menuUpdateTrigger >= 1

(* -------------------------------- C13 ---------------------------------- *)

\* C13: scoped unregister(name) returns true exactly when a builder was
\* registered under name; afterwards getMenu(name) is absent and name is not
\* in getMenuNames(); builders and cache entries of other names are
\* unchanged; when it returns false the registry state is unchanged.
C13_UnregisterScoped ==
    [][(variant = "scoped" /\ last'.op = "unregister") =>
          LET N == last'.name
              had == MapHas(builders, N) /\ Len(MapGet(builders, N)) >= 1
          IN  /\ last'.ret = RetBool(had)
              /\ GetMenuOutcome(builders', menuCache', nextRef', N).ret = RetAbsent
              /\ N \notin Range(GetMenuNames(builders'))
              /\ \A M \in MenuNames \ {N} :
                    /\ MapHas(builders', M) = MapHas(builders, M)
                    /\ MapHas(builders, M) => MapGet(builders', M) = MapGet(builders, M)
                    /\ MapHas(menuCache', M) = MapHas(menuCache, M)
                    /\ MapHas(menuCache, M) => MapGet(menuCache', M) = MapGet(menuCache, M)
              /\ ~had => /\ builders' = builders
                         /\ menuCache' = menuCache
                         /\ menuUpdateTrigger' = menuUpdateTrigger]_vars

\* unregister returned true and the other name is still registered and cached.
C13_Witness ==
    /\ variant = "scoped" /\ last.op = "unregister" /\ last.ret.ok
    /\ Len(builders) = 1 /\ Len(menuCache) = 1
    /\ ~MapHas(builders, last.name)

(* -------------------------------- C14 ---------------------------------- *)

\* C14: unscoped unregister(b) returns true exactly when b is in the builder
\* list; when it returns false the list, the cache and the counter are unchanged.
C14_UnregisterUnscoped ==
    [][(variant = "unscoped" /\ last'.op = "unregister") =>
          /\ last'.ret = RetBool(last'.builder \in Range(buildersU))
          /\ ~last'.ret.ok => /\ buildersU' = buildersU
                              /\ menuCache' = menuCache
                              /\ menuUpdateTrigger' = menuUpdateTrigger]_vars

\* unregister of a builder that is not registered, with builders and a cached menu.
C14_Witness ==
    /\ variant = "unscoped" /\ last.op = "unregister" /\ ~last.ret.ok
    /\ Len(buildersU) >= 1 /\ Len(menuCache) >= 1
    /\ last.builder \notin Range(buildersU)

(* -------------------------------- C15 ---------------------------------- *)

\* The paths of the nodes of `tree` in depth-first pre-order, root first.
RECURSIVE PreOrder(_, _)
PreOrder(tree, path) ==
    LET kids == IF tree.children = None THEN <<>> ELSE The(tree.children)
        below[i \in 0..Len(kids)] ==
            IF i = 0 THEN <<>>
            ELSE below[i - 1] \o PreOrder(kids[i], Append(path, i))
    IN  <<path>> \o below[Len(kids)]

\* The ids findMenuItemById is asked for: every id a builder uses, and one none uses.
SearchIds ==
    MenuNames \cup {"users", "user-list", "user-new", "settings", "misc", "big",
                    "home", "nowhere"}

\* The pre-order paths of the nodes of `tree` whose id is `id`.
MatchesOf(tree, id) ==
    SelectSeq(PreOrder(tree, <<>>), LAMBDA p : NodeAt(tree, p).id = id)

\* C15: findMenuItemById(tree, id) returns the first node in pre-order (root
\* included) whose id is id, also with several such nodes, and the absent
\* value exactly when no node has that id.
C15_FindFirstPreOrder ==
    \A t \in BuiltTrees, id \in SearchIds :
       LET matches == MatchesOf(t, id)
       IN  IF matches = <<>>
           THEN FindMenuItemById(t, id) = None
           ELSE FindMenuItemById(t, id) = Some(matches[1])

\* A tree with the id user-list in two sections: the one found is the first.
C15_Witness ==
    /\ last.op = "getMenu"
    /\ \E t \in last.ret.tree :
          /\ Len(MatchesOf(t, "user-list")) = 2
          /\ FindMenuItemById(t, "user-list") = Some(<<1, 2>>)
          /\ FindMenuItemById(t, "nowhere") = None
          /\ FindMenuItemById(t, last.name) = Some(<<>>)

(* ----------------------------- C16, C17 -------------------------------- *)

\* The ids of the nodes from the root of `tree` down to the node at `path`.
IdsAlong(tree, path) ==
    [k \in 1..(Len(path) + 1) |-> NodeAt(tree, SubSeq(path, 1, k - 1)).id]

\* One duplicate-id error per pre-order occurrence of an id of `tree` beyond
\* its first one, in pre-order.
DuplicatesOf(tree) ==
    LET paths == PreOrder(tree, <<>>)
        found[k \in 0..Len(paths)] ==
            IF k = 0 THEN <<>>
            ELSE IF \E j \in 1..(k - 1) :
                       NodeAt(tree, paths[j]).id = NodeAt(tree, paths[k]).id
                 THEN Append(found[k - 1],
                             [kind |-> "duplicate", id |-> NodeAt(tree, paths[k]).id,
                              at |-> IdsAlong(tree, paths[k])])
                 ELSE found[k - 1]
    IN  found[Len(paths)]

\* The warning a node gets.  As stated: a children list of any length with a
\* path, or neither a children list nor a path.  As the code has it: a
\* non-empty children list with a non-empty path, or no children list and no
\* non-empty path.
WarningOf(tree, path, asStated) ==
    LET item == NodeAt(tree, path)
        hasPath == IF asStated THEN item.path # None
                   ELSE item.path # None /\ The(item.path) # ""
        hasKids == IF asStated THEN item.children # None
                   ELSE item.children # None /\ The(item.children) # <<>>
    IN  IF hasKids /\ hasPath
        THEN <<[kind |-> "both", id |-> item.id, at |-> <<>>]>>
        ELSE IF item.children = None /\ ~hasPath
        THEN <<[kind |-> "dead", id |-> item.id, at |-> IdsAlong(tree, path)]>>
        ELSE <<>>

WarningsOf(tree, asStated) ==
    LET paths == PreOrder(tree, <<>>)
        found[k \in 0..Len(paths)] ==
            IF k = 0 THEN <<>> ELSE found[k - 1] \o WarningOf(tree, paths[k], asStated)
    IN  found[Len(paths)]

\* The trees a utility walks, in the order of getMenuNames().
WalkedTrees ==
    LET menus == UtilityReads.menus
    IN  [i \in 1..Len(menus) |-> The(menus[i].ret.tree)]

ExpectedErrors ==
    LET all[i \in 0..Len(WalkedTrees)] ==
            IF i = 0 THEN <<>> ELSE all[i - 1] \o DuplicatesOf(WalkedTrees[i])
    IN  all[Len(WalkedTrees)]

ExpectedWarnings(asStated) ==
    LET all[i \in 0..Len(WalkedTrees)] ==
            IF i = 0 THEN <<>> ELSE all[i - 1] \o WarningsOf(WalkedTrees[i], asStated)
    IN  all[Len(WalkedTrees)]

\* The report validateMenus() gives when called in the current state.
ValidateReport == ValidateMenusReport(UtilityReads.menus)

\* C16: for each tree it walks validateMenus reports exactly one duplicate-id
\* error per occurrence of an id beyond its first pre-order occurrence in that
\* tree, and no other error; valid is true exactly when there is no error.
C16_OneErrorPerDuplicate ==
    /\ \A i \in 1..Len(UtilityReads.menus) : UtilityReads.menus[i].ret.kind = "tree"
    /\ ValidateReport.errors = ExpectedErrors
    /\ ValidateReport.valid <=> (ValidateReport.errors = <<>>)

\* validateMenus walked two menus that both hold the users section twice:
\* three errors each, and warnings do not matter to valid.
C16_Witness ==
    /\ last.op = "validateMenus"
    /\ Len(WalkedTrees) = 2
    /\ Len(ValidateReport.errors) = 6
    /\ ~ValidateReport.valid

\* C17 as stated: one warning for every node with a children list of any
\* length and a path, one for every node with neither, none for the others.
C17_WarningsAsStated == ValidateReport.warnings = ExpectedWarnings(TRUE)

\* C17 amended: one warning for every node with a non-empty children list and
\* a non-empty path, one for every node with no children list and no
\* non-empty path, none for the others.
C17_WarningsNonEmpty == ValidateReport.warnings = ExpectedWarnings(FALSE)

\* validateMenus walked a menu whose root has children and a path (warned),
\* with a home item of an empty children list and a path (not warned) and a
\* leaf without path (warned).
C17_Witness ==
    /\ last.op = "validateMenus"
    /\ Len(WalkedTrees) = 1
    /\ FindMenuItemById(WalkedTrees[1], "home") # None
    /\ {ValidateReport.warnings[i].kind : i \in 1..Len(ValidateReport.warnings)}
          = {"both", "dead"}
    /\ \A i \in 1..Len(ValidateReport.warnings) : ValidateReport.warnings[i].id # "home"

(* -------------------------------- C18 ---------------------------------- *)

\* Whether `title` contains `term` at some position, letter case ignored.
ContainsIgnoringCase(title, term) ==
    \E i \in 0..(Len(Chars(title)) - Len(Chars(term))) :
       \A k \in 1..Len(Chars(term)) :
          LowerChar(Chars(title)[i + k]) = LowerChar(Chars(term)[k])

\* The matching nodes of the menu `menuName` builds afresh, in pre-order, each
\* paired with the menu name.
TitleMatches(menuName, term) ==
    LET tree == FreshBuild(ApplicableBuilders(menuName), menuName)
        hits == SelectSeq(PreOrder(tree, <<>>),
                          LAMBDA p : ContainsIgnoringCase(NodeAt(tree, p).title, term))
    IN  [i \in 1..Len(hits) |-> [menuName |-> menuName, item |-> hits[i]]]

\* The result of searchMenusByTitle(term) called in the current state.
SearchResult(term) == SearchMenusResult(UtilityReads.menus, term, <<>>)

\* The results of `term` that belong to menu `menuName`, in result order.
ResultsOf(menuName, term) ==
    SelectSeq(SearchResult(term), LAMBDA r : r.menuName = menuName)

\* C18 as stated: the result holds, for every menu with registered builder
\* contributions, read through getMenu or not, its matching nodes in
\* pre-order, and nothing else.
C18_SearchesEveryBuildableMenu ==
    \A term \in SearchTerms, n \in MenuNames :
       ResultsOf(n, term) =
          IF ApplicableBuilders(n) # <<>> THEN TitleMatches(n, term) ELSE <<>>

\* The names getMenuNames() lists: without repetition, in the scoped revision
\* the names that have builders, in the unscoped one the names passed to
\* getMenu since the last register, unregister or clear.
ListedNames ==
    LET names == RegistryGetMenuNames
    IN  IF /\ \A i, j \in 1..Len(names) : names[i] = names[j] => i = j
           /\ Range(names) = IF variant = "scoped"
                             THEN {n \in MenuNames : ApplicableBuilders(n) # <<>>}
                             ELSE requested
        THEN names
        ELSE <<"?">>

\* C18 amended: the result holds, for every name getMenuNames() lists and in
\* that order, the matching nodes of the menu in pre-order paired with the
\* name, and nothing else; a menu getMenuNames() does not list is not searched.
C18_SearchesListedMenus ==
    \A term \in SearchTerms :
       LET all[i \in 0..Len(ListedNames)] ==
               IF i = 0 THEN <<>>
               ELSE all[i - 1] \o TitleMatches(ListedNames[i], term)
       IN  SearchResult(term) = all[Len(ListedNames)]

\* The unscoped registry holds the users builder, only "main" has been read,
\* and searchMenusByTitle("user") ran: three matches, all of "main".
C18_Witness ==
    /\ variant = "unscoped"
    /\ last.op = "searchMenusByTitle"
    /\ last.name = "user"
    /\ buildersU = <<"users">>
    /\ requested = {"main"}
    /\ Len(SearchResult("user")) = 3
    /\ ResultsOf("side", "user") = <<>>

(* -------------------------------- C19 ---------------------------------- *)

\* The items of `arr` that satisfy `keep`, as positions in increasing order.
KeptPositions(arr, keep(_)) ==
    {k \in 1..Len(arr) : keep(arr[k])}

\* Whether `out` holds exactly the items of `arr` at positions `kept`, in the
\* order of `arr`.
IsSelection(out, arr, kept) ==
    /\ Len(out) = Cardinality(kept)
    /\ \A i \in 1..Len(out) :
          /\ out[i].id \in kept
          /\ out[i] = arr[out[i].id]
          /\ \A j \in 1..(i - 1) : out[j].id < out[i].id

\* What a filter call has to return: the items array itself without a list,
\* else a selection of its items.
FilterContract(tagged(_)) ==
    filtered # None =>
       IF userPermissions = None
       THEN The(filtered).same /\ The(filtered).items = items
       ELSE IsSelection(The(filtered).items, items,
               KeptPositions(items,
                  LAMBDA it : \/ ~tagged(it)
                              \/ it.permission \in
                                   {Some(p) : p \in Range(The(userPermissions))}))

\* C19 as stated: without a list the items come back unchanged; with a list,
\* also an empty one, exactly the items come back, in order, that have no
\* permission tag or whose tag is in the list.
C19_KeepsUntaggedAndListed == FilterContract(LAMBDA it : it.permission # None)

\* C19 amended: an item whose tag is the empty string counts as having none.
C19_KeepsEmptyTagToo ==
    FilterContract(LAMBDA it : it.permission # None /\ The(it.permission) # "")

\* The filter ran with the list ["admin"] on an untagged item, an item with
\* the empty tag and a "user" item: the first two came back.
C19_Witness ==
    /\ filtered # None
    /\ userPermissions = Some(<<"admin">>)
    /\ Len(items) = 3
    /\ items[1].permission = None
    /\ items[2].permission = Some("")
    /\ items[3].permission = Some("user")
    /\ The(filtered).items = <<items[1], items[2]>>

(* -------------------------------- C20 ---------------------------------- *)

\* The content getMenu(menuName) would return in the current state: absent,
\* or a tree (whichever object carries it).
MenuContent(menuName) ==
    [kind |-> NextGetMenu(menuName).ret.kind, tree |-> NextGetMenu(menuName).ret.tree]

\* C20: a step that leaves the change counter where it is leaves the result
\* of getMenu(name) the same for every name; the counter never decreases, so
\* two points with the same counter then give the same menus.
C20_SameCounterSameMenu ==
    [][menuUpdateTrigger' = menuUpdateTrigger =>
          \A n \in MenuNames : MenuContent(n)' = MenuContent(n)]_vars

(* -------------------------------- C21 ---------------------------------- *)

\* How many times `builder` occurs in the sequence `bs`.
Occurrences(bs, builder) == Cardinality({i \in 1..Len(bs) : bs[i] = builder})

\* `bs` without the element at position `i`, the others in their order.
WithoutPosition(bs, i) ==
    [k \in 1..(Len(bs) - 1) |-> IF k < i THEN bs[k] ELSE bs[k + 1]]

\* C21: in the unscoped variant a register pushes the builder also when it is
\* in the list already; an unregister that finds the builder removes its
\* earliest occurrence and keeps the others in their order; and a rebuild
\* invokes every builder instance as many times as it was registered minus
\* the times it was unregistered.
C21_InvokedRegisteredMinusUnregistered ==
    [][variant = "unscoped" =>
          /\ last'.op = "register" =>
                buildersU' = buildersU \o <<last'.builder>>
          /\ (last'.op = "unregister" /\ last'.ret.ok) =>
                \E i \in 1..Len(buildersU) :
                   /\ buildersU[i] = last'.builder
                   /\ \A j \in 1..(i - 1) : buildersU[j] # last'.builder
                   /\ buildersU' = WithoutPosition(buildersU, i)
          /\ (last'.op = "getMenu" /\ last'.sorted) =>
                \A b \in BuilderIds :
                   Occurrences(last'.ran, b) =
                      counted.registered[b] - counted.unregistered[b]]_vars

\* users, settings, users were registered and users unregistered once: the
\* rebuild ran settings and then the later users, once each.
C21_Witness ==
    /\ variant = "unscoped"
    /\ last.op = "getMenu" /\ last.sorted
    /\ counted.registered["users"] = 2 /\ counted.unregistered["users"] = 1
    /\ counted.registered["settings"] = 1
    /\ last.ran = <<"settings", "users">>

====
